---- MODULE Spec2Model ----
(***************************************************************************)
(* Model of the two utility scripts of the repository:                     *)
(*                                                                         *)
(*   templates/data-science/visualize_templates.py   (diagram renderer)    *)
(*   templates/data-science/polars-cli/data/generate_sample_parquet.py     *)
(*                                                   (sample data generator)*)
(*                                                                         *)
(* Spec     is the renderer: one process run of main() after the other on  *)
(*          a file system that persists between the runs.                  *)
(* SpecGen  is the generator: one run of the script per seed of the        *)
(*          pseudo random number generator.                                *)
(*                                                                         *)
(* Environment: a library call that fails raises a subclass of Exception   *)
(* (OSError, graphviz's ExecutableNotFound, CalledProcessError); print()   *)
(* does not fail; nothing but the renderer writes below 'diagrams'.        *)
(***************************************************************************)
EXTENDS Integers, Sequences, FiniteSets, TLC

VARIABLES
    \* ---- diagram renderer ----
    pc,        \* position of the running process inside main()
    dirState,  \* what the path 'diagrams' is in the invocation directory
    files,     \* regular files on disk, as <<directory, name>>
    cwd,       \* working directory of the running process
    dot,       \* the Digraph object of the routine that ran last
    e,         \* description of the exception bound by `except Exception as e`
    result,    \* value returned by main(), -1 while it has not returned
    stdout,    \* lines printed by the running process
    trace,     \* steps of main() attempted by the running process, with outcome
    prev,      \* exit status of the previous process run, -1 if there was none
    \* ---- sample data generator ----
    gpc,       \* position of the generator script
    rng,       \* state of the pseudo random number generator
    data,      \* the dict `data`
    df,        \* the DataFrame `df`
    parquet,   \* content of example_data_parquet.parquet, <<>> if not written
    gout       \* lines printed by the generator

rvars == <<pc, dirState, files, cwd, dot, e, result, stdout, trace, prev>>
gvars == <<gpc, rng, data, df, parquet, gout>>
vars == <<pc, dirState, files, cwd, dot, e, result, stdout, trace, prev,
          gpc, rng, data, df, parquet, gout>>

(***************************************************************************)
(* Diagram renderer: file names and messages                               *)
(***************************************************************************)

\* render(..., format='png'): the image is written to <filename>.<format>
Format == "png"

ImageName(filename) == filename \o "." \o Format

ImageClassifierFile == "burn-image-classifier-diagram"
TextAnalyzerFile == "burn-text-analyzer-diagram"
DataPredictorFile == "burn-data-predictor-diagram"
OverviewFile == "burn-templates-overview"

ImageClassifierMsg ==
    "Created image classifier diagram: burn-image-classifier-diagram.png"
TextAnalyzerMsg ==
    "Created text analyzer diagram: burn-text-analyzer-diagram.png"
DataPredictorMsg ==
    "Created data predictor diagram: burn-data-predictor-diagram.png"
OverviewMsg ==
    "Created templates overview: burn-templates-overview.png"
SuccessMsg ==
    "All diagrams created successfully in the 'diagrams' directory"

\* mutant of ErrorMsg: the message leaves the exception out
ErrorMsgGeneric(exc) == "Error creating diagrams"

\* print(f"Error creating diagrams: {e}")
ErrorMsg(exc) == "Error creating diagrams: " \o exc

\* the directory of os.makedirs('diagrams', ...) and os.chdir('diagrams')
OutDir == "diagrams"

\* the directory the program is invoked in
InvocationDir == "."

(***************************************************************************)
(* Diagram renderer: the four graph descriptions                           *)
(*                                                                         *)
(* A Digraph is its attributes and its body, the statements in the order   *)
(* the calls add them.  A statement made on a subgraph `c` carries the     *)
(* name of that subgraph as its scope, a statement made on `dot` carries   *)
(* Top.  An edge without label= has the label "".                          *)
(***************************************************************************)

Top == "top"

\* dot.node(id, label, shape=..., color=...) / c.node(...)
Node(scope, id, label, shape, color) ==
    [op |-> "node", scope |-> scope, id |-> id, label |-> label,
     shape |-> shape, color |-> color]

\* dot.edge(tail, head, label=...) / c.edge(tail, head)
Edge(scope, tail, head, label) ==
    [op |-> "edge", scope |-> scope, tail |-> tail, head |-> head,
     label |-> label]

\* with dot.subgraph(name=...) as c: c.attr(label=..., style=...)
Subgraph(name, label, style) ==
    [op |-> "subgraph", scope |-> name, label |-> label, style |-> style]

\* Digraph(comment=...) before any statement is added
EmptyGraph ==
    [comment |-> "", rankdir |-> "", size |-> "", dpi |-> "", body |-> <<>>]

\* top-level nodes
ImageClassifierNodes ==
    << Node(Top, "config", "Configuration\n(config.rs)", "note", "lightgreen"),
       Node(Top, "data", "Data Processing\n(data.rs)", "box", ""),
       Node(Top, "model", "CNN Model\n(model.rs)", "box", ""),
       Node(Top, "main", "Main Application\n(main.rs)", "box", "") >>

\* the 'Data Flow' subgraph and its stage nodes
ImageClassifierFlowNodes ==
    << Subgraph("cluster_dataflow", "Data Flow", "dashed"),
       Node("cluster_dataflow", "images", "Input Images", "folder",
            "lightyellow"),
       Node("cluster_dataflow", "tensors", "Image Tensors", "box3d",
            "lightgrey"),
       Node("cluster_dataflow", "features", "Feature Maps", "box3d",
            "lightgrey"),
       Node("cluster_dataflow", "predictions", "Class Predictions",
            "box3d", "lightgrey") >>

\* the edges declared inside the 'Data Flow' subgraph
ImageClassifierFlowEdges ==
    << Edge("cluster_dataflow", "images", "tensors", ""),
       Edge("cluster_dataflow", "tensors", "features", ""),
       Edge("cluster_dataflow", "features", "predictions", "") >>

\* labeled top-level edges
ImageClassifierEdges ==
    << Edge(Top, "config", "data", "Parameters"),
       Edge(Top, "config", "model", "Architecture"),
       Edge(Top, "config", "main", "Training Settings"),
       Edge(Top, "data", "tensors", "Process"),
       Edge(Top, "model", "features", "Extract"),
       Edge(Top, "main", "predictions", "Output") >>

ImageClassifierBody ==
    ImageClassifierNodes \o ImageClassifierFlowNodes
        \o ImageClassifierFlowEdges \o ImageClassifierEdges

ImageClassifierGraph ==
    [comment |-> "Image Classifier Architecture", rankdir |-> "TB",
     size |-> "8,8", dpi |-> "300", body |-> ImageClassifierBody]

\* top-level nodes
TextAnalyzerNodes ==
    << Node(Top, "config", "Configuration\n(config.rs)", "note", "lightgreen"),
       Node(Top, "data", "Text Processing\n(data.rs)", "box", ""),
       Node(Top, "model", "LSTM Model\n(model.rs)", "box", ""),
       Node(Top, "main", "Main Application\n(main.rs)", "box", "") >>

\* the 'Data Flow' subgraph and its stage nodes
TextAnalyzerFlowNodes ==
    << Subgraph("cluster_dataflow", "Data Flow", "dashed"),
       Node("cluster_dataflow", "text", "Input Text", "folder", "lightyellow"),
       Node("cluster_dataflow", "tokens", "Token Sequences", "box3d",
            "lightgrey"),
       Node("cluster_dataflow", "embeddings", "Word Embeddings", "box3d",
            "lightgrey"),
       Node("cluster_dataflow", "sentiment", "Sentiment Prediction",
            "box3d", "lightgrey") >>

\* mutant of TextAnalyzerFlowEdges: the second edge skips a stage
TextAnalyzerFlowEdgesSkip ==
    << Edge("cluster_dataflow", "text", "tokens", ""),
       Edge("cluster_dataflow", "text", "embeddings", ""),
       Edge("cluster_dataflow", "embeddings", "sentiment", "") >>

\* the edges declared inside the 'Data Flow' subgraph
TextAnalyzerFlowEdges ==
    << Edge("cluster_dataflow", "text", "tokens", ""),
       Edge("cluster_dataflow", "tokens", "embeddings", ""),
       Edge("cluster_dataflow", "embeddings", "sentiment", "") >>

\* labeled top-level edges
TextAnalyzerEdges ==
    << Edge(Top, "config", "data", "Parameters"),
       Edge(Top, "config", "model", "Architecture"),
       Edge(Top, "config", "main", "Training Settings"),
       Edge(Top, "data", "tokens", "Tokenize"),
       Edge(Top, "model", "embeddings", "Embed"),
       Edge(Top, "main", "sentiment", "Output") >>

TextAnalyzerBody ==
    TextAnalyzerNodes \o TextAnalyzerFlowNodes
        \o TextAnalyzerFlowEdges \o TextAnalyzerEdges

TextAnalyzerGraph ==
    [comment |-> "Text Analyzer Architecture", rankdir |-> "TB",
     size |-> "8,8", dpi |-> "300", body |-> TextAnalyzerBody]

\* top-level nodes
DataPredictorNodes ==
    << Node(Top, "config", "Configuration\n(config.rs)", "note", "lightgreen"),
       Node(Top, "data", "Data Processing\n(data.rs)", "box", ""),
       Node(Top, "model", "Neural Network\n(model.rs)", "box", ""),
       Node(Top, "main", "Main Application\n(main.rs)", "box", "") >>

\* the 'Data Flow' subgraph and its stage nodes
DataPredictorFlowNodes ==
    << Subgraph("cluster_dataflow", "Data Flow", "dashed"),
       Node("cluster_dataflow", "csv", "CSV Data", "folder", "lightyellow"),
       Node("cluster_dataflow", "features", "Numerical Features", "box3d",
            "lightgrey"),
       Node("cluster_dataflow", "normalized", "Normalized Features",
            "box3d", "lightgrey"),
       Node("cluster_dataflow", "prediction", "Value Prediction", "box3d",
            "lightgrey") >>

\* the edges declared inside the 'Data Flow' subgraph
DataPredictorFlowEdges ==
    << Edge("cluster_dataflow", "csv", "features", ""),
       Edge("cluster_dataflow", "features", "normalized", ""),
       Edge("cluster_dataflow", "normalized", "prediction", "") >>

\* mutant of DataPredictorEdges: the last edge names 'predictions', the
\* stage of the image classifier, which this graph does not declare
DataPredictorEdgesUndeclared ==
    << Edge(Top, "config", "data", "Parameters"),
       Edge(Top, "config", "model", "Architecture"),
       Edge(Top, "config", "main", "Training Settings"),
       Edge(Top, "data", "normalized", "Normalize"),
       Edge(Top, "model", "prediction", "Predict"),
       Edge(Top, "main", "predictions", "Output") >>

\* labeled top-level edges
DataPredictorEdges ==
    << Edge(Top, "config", "data", "Parameters"),
       Edge(Top, "config", "model", "Architecture"),
       Edge(Top, "config", "main", "Training Settings"),
       Edge(Top, "data", "normalized", "Normalize"),
       Edge(Top, "model", "prediction", "Predict"),
       Edge(Top, "main", "prediction", "Output") >>

DataPredictorBody ==
    DataPredictorNodes \o DataPredictorFlowNodes
        \o DataPredictorFlowEdges \o DataPredictorEdges

DataPredictorGraph ==
    [comment |-> "Data Predictor Architecture", rankdir |-> "TB",
     size |-> "8,8", dpi |-> "300", body |-> DataPredictorBody]

\* central node and template nodes
OverviewNodes ==
    << Node(Top, "burn", "Burn Framework", "box", "orange"),
       Node(Top, "image", "Image Classifier", "box", "skyblue"),
       Node(Top, "text", "Text Analyzer", "box", "lightgreen"),
       Node(Top, "data", "Data Predictor", "box", "lightpink") >>

\* one subgraph of feature nodes per template
OverviewFeatures ==
    << Subgraph("cluster_image", "Image Classifier Features", "dashed"),
       Node("cluster_image", "cnn", "CNN Architecture", "ellipse", ""),
       Node("cluster_image", "augment", "Image Augmentation", "ellipse", ""),
       Node("cluster_image", "classify", "Multi-class Classification",
            "ellipse", ""),
       Subgraph("cluster_text", "Text Analyzer Features", "dashed"),
       Node("cluster_text", "lstm", "LSTM Architecture", "ellipse", ""),
       Node("cluster_text", "embed", "Word Embeddings", "ellipse", ""),
       Node("cluster_text", "sentiment", "Sentiment Analysis", "ellipse", ""),
       Subgraph("cluster_data", "Data Predictor Features", "dashed"),
       Node("cluster_data", "mlp", "MLP Architecture", "ellipse", ""),
       Node("cluster_data", "normalize", "Data Normalization", "ellipse", ""),
       Node("cluster_data", "regression", "Regression Analysis", "ellipse",
            "") >>

\* connect templates to Burn
OverviewTemplateEdges ==
    << Edge(Top, "burn", "image", ""),
       Edge(Top, "burn", "text", ""),
       Edge(Top, "burn", "data", "") >>

\* mutant of OverviewFeatureEdges: 'sentiment' is connected to the data
\* predictor instead of the text analyzer
OverviewFeatureEdgesCrossed ==
    << Edge(Top, "image", "cnn", ""),
       Edge(Top, "image", "augment", ""),
       Edge(Top, "image", "classify", ""),
       Edge(Top, "text", "lstm", ""),
       Edge(Top, "text", "embed", ""),
       Edge(Top, "data", "sentiment", ""),
       Edge(Top, "data", "mlp", ""),
       Edge(Top, "data", "normalize", ""),
       Edge(Top, "data", "regression", "") >>

\* connect features to templates
OverviewFeatureEdges ==
    << Edge(Top, "image", "cnn", ""),
       Edge(Top, "image", "augment", ""),
       Edge(Top, "image", "classify", ""),
       Edge(Top, "text", "lstm", ""),
       Edge(Top, "text", "embed", ""),
       Edge(Top, "text", "sentiment", ""),
       Edge(Top, "data", "mlp", ""),
       Edge(Top, "data", "normalize", ""),
       Edge(Top, "data", "regression", "") >>

OverviewBody ==
    OverviewNodes \o OverviewFeatures
        \o OverviewTemplateEdges \o OverviewFeatureEdges

OverviewGraph ==
    [comment |-> "Burn Templates Overview", rankdir |-> "LR",
     size |-> "10,8", dpi |-> "300", body |-> OverviewBody]


(***************************************************************************)
(* Diagram renderer: the library calls main() and the routines make        *)
(***************************************************************************)

\* mutant of ExistOk: the call without exist_ok
ExistOkOmitted == FALSE

\* os.makedirs('diagrams', exist_ok=True): the exist_ok argument
ExistOk == TRUE

\* os.makedirs(name, exist_ok): what the call can do when the path is in
\* state d.  mkdir() creates an absent directory unless the parent refuses;
\* on a path that exists it raises FileExistsError, which makedirs swallows
\* only if exist_ok is set and the path is a directory.
MakedirsOutcomes(d, exist_ok) ==
    CASE d = "absent" -> {"ok", "denied"}
      [] d = "dir" -> IF exist_ok THEN {"ok"} ELSE {"exists"}
      [] d = "file" -> {"exists"}

\* os.chdir('diagrams'): what the call can do when the path is in state d
ChdirOutcomes(d) ==
    CASE d = "dir" -> {"ok", "denied"}
      [] d = "absent" -> {"missing"}
      [] d = "file" -> {"notdir"}

\* str(e) of the OSError a failed call on `path` raises
OSErrorText(o, path) ==
    CASE o = "exists" -> "[Errno 17] File exists: '" \o path \o "'"
      [] o = "denied" -> "[Errno 13] Permission denied: '" \o path \o "'"
      [] o = "missing" ->
            "[Errno 2] No such file or directory: '" \o path \o "'"
      [] o = "notdir" -> "[Errno 20] Not a directory: '" \o path \o "'"

\* dot.render(filename, format='png', cleanup=...) does three things in a
\* row: save() writes the graph description to <filename>, the dot program
\* turns it into <filename>.png, and with cleanup the description is
\* removed.  Each of the three can raise, which ends the call there:
\*   "save"    nothing was written
\*   "render"  the description was written, no image was produced
\*   "cleanup" the image was produced, the description could not be removed
RenderOutcomes == {"ok", "save", "render", "cleanup"}

\* the files on disk after dot.render(...) ended with outcome o in directory d
Render(fs, d, filename, cleanup, o) ==
    CASE o = "save" -> fs
      [] o = "render" -> fs \cup {<<d, filename>>}
      [] o = "cleanup" -> fs \cup {<<d, filename>>, <<d, ImageName(filename)>>}
      [] o = "ok" ->
            IF cleanup
            THEN (fs \cup {<<d, ImageName(filename)>>}) \ {<<d, filename>>}
            ELSE fs \cup {<<d, filename>>, <<d, ImageName(filename)>>}

\* str(e) of the exception a failed dot.render(...) raises
RenderErrorText(o, filename) ==
    CASE o = "save" -> OSErrorText("denied", filename)
      [] o = "render" ->
            "failed to execute 'dot', make sure the Graphviz executables "
                \o "are on your systems' PATH"
      [] o = "cleanup" -> "[Errno 1] Operation not permitted: '"
                              \o filename \o "'"

(***************************************************************************)
(* Diagram renderer: main()                                                *)
(***************************************************************************)

\* mutant of MainSteps: two of the routine calls in the other order
MainStepsSwapped ==
    << "makedirs", "chdir", "image_classifier", "data_predictor",
       "text_analyzer", "overview" >>

\* the statements of the try block of main(), in program order
MainSteps ==
    << "makedirs", "chdir", "image_classifier", "text_analyzer",
       "data_predictor", "overview" >>

StepIndex(step) == CHOOSE i \in 1..Len(MainSteps) : MainSteps[i] = step

\* the position after `step` completed: the next statement of the try
\* block, or the final print when there is none
NextPc(step) ==
    IF StepIndex(step) < Len(MainSteps)
    THEN MainSteps[StepIndex(step) + 1]
    ELSE "success"

\* `step` returned normally
Complete(step) ==
    /\ pc' = NextPc(step)
    /\ trace' = Append(trace, <<step, "ok">>)
    /\ e' = e

\* `step` raised an exception described by `text`: control goes to the
\* except clause of main()
Raise(step, text) ==
    /\ pc' = "except"
    /\ trace' = Append(trace, <<step, "fault">>)
    /\ e' = text

\* os.makedirs('diagrams', exist_ok=True); main() runs it first, when the
\* working directory is still the invocation directory
MakeDirs ==
    /\ pc = "makedirs"
    /\ \E o \in MakedirsOutcomes(dirState, ExistOk) :
          IF o = "ok"
          THEN dirState' = "dir" /\ Complete("makedirs")
          ELSE dirState' = dirState
                 /\ Raise("makedirs", OSErrorText(o, OutDir))
    /\ UNCHANGED <<files, cwd, dot, result, stdout, prev>>

\* os.chdir('diagrams')
ChDir ==
    /\ pc = "chdir"
    /\ \E o \in ChdirOutcomes(dirState) :
          IF o = "ok"
          THEN cwd' = OutDir /\ Complete("chdir")
          ELSE cwd' = cwd /\ Raise("chdir", OSErrorText(o, OutDir))
    /\ UNCHANGED <<dirState, files, dot, result, stdout, prev>>

\* one diagram routine: build the graph, render it into the working
\* directory, print the confirmation
Routine(step, graph, filename, cleanup, msg) ==
    /\ pc = step
    /\ dot' = graph
    /\ \E o \in RenderOutcomes :
          /\ files' = Render(files, cwd, filename, cleanup, o)
          /\ IF o = "ok"
             THEN stdout' = Append(stdout, msg) /\ Complete(step)
             ELSE stdout' = stdout
                    /\ Raise(step, RenderErrorText(o, filename))
    /\ UNCHANGED <<dirState, cwd, result, prev>>

create_image_classifier_diagram ==
    Routine("image_classifier", ImageClassifierGraph, ImageClassifierFile,
            TRUE, ImageClassifierMsg)

create_text_analyzer_diagram ==
    Routine("text_analyzer", TextAnalyzerGraph, TextAnalyzerFile,
            TRUE, TextAnalyzerMsg)

create_data_predictor_diagram ==
    Routine("data_predictor", DataPredictorGraph, DataPredictorFile,
            TRUE, DataPredictorMsg)

\* mutant of create_templates_overview: render without cleanup
create_templates_overview_no_cleanup ==
    Routine("overview", OverviewGraph, OverviewFile, FALSE, OverviewMsg)

create_templates_overview ==
    Routine("overview", OverviewGraph, OverviewFile, TRUE, OverviewMsg)

\* the final print of the try block, then `return 0`
Success ==
    /\ pc = "success"
    /\ stdout' = Append(stdout, SuccessMsg)
    /\ result' = 0
    /\ pc' = "exit"
    /\ UNCHANGED <<dirState, files, cwd, dot, e, trace, prev>>

\* mutant of Except: the clause lacks its return and falls through to
\* `return 0`
ExceptFallsThrough ==
    /\ pc = "except"
    /\ stdout' = Append(stdout, ErrorMsg(e))
    /\ result' = 0
    /\ pc' = "exit"
    /\ UNCHANGED <<dirState, files, cwd, dot, e, trace, prev>>

\* mutant of Except: the clause removes what the run left in the working
\* directory before it returns
ExceptRollsBack ==
    /\ pc = "except"
    /\ stdout' = Append(stdout, ErrorMsg(e))
    /\ files' = {f \in files : f[1] # cwd}
    /\ result' = 1
    /\ pc' = "exit"
    /\ UNCHANGED <<dirState, cwd, dot, e, trace, prev>>

\* except Exception as e: print(...); return 1
Except ==
    /\ pc = "except"
    /\ stdout' = Append(stdout, ErrorMsg(e))
    /\ result' = 1
    /\ pc' = "exit"
    /\ UNCHANGED <<dirState, files, cwd, dot, e, trace, prev>>

\* sys.exit(main()) ended the process; the program is invoked again from
\* the same directory.  The new process starts with its own working
\* directory, output and locals; the file system is what the last run left.
Invoke ==
    /\ pc = "exit"
    /\ pc' = MainSteps[1]
    /\ prev' = result
    /\ cwd' = InvocationDir
    /\ dot' = EmptyGraph
    /\ e' = ""
    /\ result' = -1
    /\ stdout' = <<>>
    /\ trace' = <<>>
    /\ UNCHANGED <<dirState, files>>

(***************************************************************************)
(* Sample data generator                                                   *)
(***************************************************************************)

\* seeds of the pseudo random number generator the model tries
MaxSeed == 31

\* range(a, b)
Range(a, b) == [i \in 1..(b - a) |-> a + i - 1]

\* The pseudo random number generator is counter based: its state is the
\* number of the next draw, and draw number x is a scrambling of x.
Rand(x) == ((((x * 75 + 74) % 65537) * 75 + 74) % 65537)

\* np.random.rand(n) * 1000 in state r: n floats of [0, 1000), here on a
\* grid of 1000
RandValues(r, n) == [i \in 1..n |-> Rand(r + i) % 1000]

\* np.random.choice(options, n) in state r
RandChoice(r, options, n) ==
    [i \in 1..n |-> options[(Rand(r + i) % Len(options)) + 1]]

\* pd.date_range(start=..., periods=n): consecutive days, as day numbers
\* counted from the start date
DateRange(periods) == [i \in 1..periods |-> i - 1]

\* mutant of IdColumn: range(100)
IdColumnFromZero == Range(0, 100)

\* 'id': range(1, 101)
IdColumn == Range(1, 101)

\* 'name': [f'Item {i}' for i in range(1, 101)]
NameColumn == [k \in 1..Len(Range(1, 101)) |->
                  "Item " \o ToString(Range(1, 101)[k])]

ColumnNames == <<"id", "name", "value", "category", "date", "is_active">>

\* a DataFrame before it is constructed
NoFrame == [columns |-> <<>>, nrows |-> 0, col |-> <<>>]

\* the dict literal `data`: the entries are evaluated in order, the three
\* random columns draw from the generator one after the other
BuildData ==
    /\ gpc = "data"
    /\ data' = [id |-> IdColumn,
                name |-> NameColumn,
                value |-> RandValues(rng, 100),
                category |->
                    RandChoice(rng + 100, <<"A", "B", "C", "D">>, 100),
                date |-> DateRange(100),
                is_active |->
                    RandChoice(rng + 200, <<TRUE, FALSE>>, 100)]
    /\ rng' = rng + 300
    /\ gpc' = "frame"
    /\ UNCHANGED <<df, parquet, gout>>

\* df = pd.DataFrame(data): the columns in the order of the dict; columns of
\* different lengths raise ValueError, which nothing handles
MakeFrame ==
    /\ gpc = "frame"
    /\ IF \A c \in DOMAIN data : Len(data[c]) = Len(data.id)
       THEN /\ df' = [columns |-> ColumnNames, nrows |-> Len(data.id),
                      col |-> data]
            /\ gpc' = "parquet"
       ELSE /\ df' = df
            /\ gpc' = "crashed"
    /\ UNCHANGED <<rng, data, parquet, gout>>

\* df.to_parquet('example_data_parquet.parquet', index=False): writes the
\* columns without the index, or raises, which nothing handles
ToParquet ==
    /\ gpc = "parquet"
    /\ \E ok \in BOOLEAN :
          IF ok
          THEN parquet' = [columns |-> df.columns, col |-> df.col]
                 /\ gpc' = "print"
          ELSE parquet' = parquet /\ gpc' = "crashed"
    /\ UNCHANGED <<rng, data, df, gout>>

\* print("Sample Parquet file created successfully!")
GenPrint ==
    /\ gpc = "print"
    /\ gout' = Append(gout, "Sample Parquet file created successfully!")
    /\ gpc' = "done"
    /\ UNCHANGED <<rng, data, df, parquet>>

\* the generator does not run in the renderer's specification
GenIdle ==
    /\ gpc = "off"
    /\ rng = 0
    /\ data = <<>>
    /\ df = NoFrame
    /\ parquet = <<>>
    /\ gout = <<>>

\* the renderer does not run in the generator's specification
RenderIdle ==
    /\ pc = "off"
    /\ dirState = "absent"
    /\ files = {}
    /\ cwd = InvocationDir
    /\ dot = EmptyGraph
    /\ e = ""
    /\ result = -1
    /\ stdout = <<>>
    /\ trace = <<>>
    /\ prev = -1

\* the script starts with the generator seeded from the system
InitGen ==
    /\ gpc = "data"
    /\ rng \in 0..MaxSeed
    /\ data = <<>>
    /\ df = NoFrame
    /\ parquet = <<>>
    /\ gout = <<>>
    /\ RenderIdle

NextGen ==
    \/ BuildData /\ UNCHANGED rvars
    \/ MakeFrame /\ UNCHANGED rvars
    \/ ToParquet /\ UNCHANGED rvars
    \/ GenPrint /\ UNCHANGED rvars

SpecGen == InitGen /\ [][NextGen]_vars

\* the first invocation: 'diagrams' may be absent, a directory left empty,
\* or a regular file
Init ==
    /\ pc = MainSteps[1]
    /\ dirState \in {"absent", "dir", "file"}
    /\ files = {}
    /\ cwd = InvocationDir
    /\ dot = EmptyGraph
    /\ e = ""
    /\ result = -1
    /\ stdout = <<>>
    /\ trace = <<>>
    /\ prev = -1
    /\ GenIdle

Next ==
    \/ MakeDirs /\ UNCHANGED gvars
    \/ ChDir /\ UNCHANGED gvars
    \/ create_image_classifier_diagram /\ UNCHANGED gvars
    \/ create_text_analyzer_diagram /\ UNCHANGED gvars
    \/ create_data_predictor_diagram /\ UNCHANGED gvars
    \/ create_templates_overview /\ UNCHANGED gvars
    \/ Success /\ UNCHANGED gvars
    \/ Except /\ UNCHANGED gvars
    \/ Invoke /\ UNCHANGED gvars

Spec == Init /\ [][Next]_vars


(***************************************************************************)
(* Diagram renderer: properties                                            *)
(***************************************************************************)

Last(s) == s[Len(s)]

SeqRange(s) == {s[i] : i \in 1..Len(s)}

\* a step of the running process raised
Faulted == \E i \in 1..Len(trace) : trace[i][2] = "fault"

\* the six steps of main() as the documentation lists them
DocumentedOrder ==
    << "makedirs", "chdir", "image_classifier", "text_analyzer",
       "data_predictor", "overview" >>

DiagramSteps ==
    {"image_classifier", "text_analyzer", "data_predictor", "overview"}

\* the image each routine is documented to produce
DocumentedImage(step) ==
    CASE step = "image_classifier" -> "burn-image-classifier-diagram.png"
      [] step = "text_analyzer" -> "burn-text-analyzer-diagram.png"
      [] step = "data_predictor" -> "burn-data-predictor-diagram.png"
      [] step = "overview" -> "burn-templates-overview.png"

\* the graph description file each routine writes on the way
IntermediateFile(step) ==
    CASE step = "image_classifier" -> "burn-image-classifier-diagram"
      [] step = "text_analyzer" -> "burn-text-analyzer-diagram"
      [] step = "data_predictor" -> "burn-data-predictor-diagram"
      [] step = "overview" -> "burn-templates-overview"

Confirmation(step) ==
    CASE step = "image_classifier" ->
            "Created image classifier diagram: burn-image-classifier-diagram.png"
      [] step = "text_analyzer" ->
            "Created text analyzer diagram: burn-text-analyzer-diagram.png"
      [] step = "data_predictor" ->
            "Created data predictor diagram: burn-data-predictor-diagram.png"
      [] step = "overview" ->
            "Created templates overview: burn-templates-overview.png"

\* C1: when main() has returned, the value is 0 or 1; it is 0 exactly when
\* all six steps completed without raising and 1 exactly when one of them
\* raised; a raised exception always ends in the except clause of main().
C1_ExitStatus ==
    /\ pc = "exit" =>
          /\ result \in {0, 1}
          /\ result = 0 <=>
                \A s \in SeqRange(DocumentedOrder) :
                    <<s, "ok">> \in SeqRange(trace)
          /\ result = 1 <=> Faulted
    /\ Faulted => pc \in {"except", "exit"}
    /\ pc = "except" => Faulted /\ e # ""

\* C1 witness: a run in which only the last routine raised has returned
C1_Witness ==
    /\ pc = "exit"
    /\ result = 1
    /\ Len(trace) = 6
    /\ trace[6] = <<"overview", "fault">>

\* C2: the image of every routine that completed in this run is on disk in
\* the output directory, also after a later routine raised and after main()
\* returned; and after any fault the exit status is 1, whichever step raised.
C2_PartialFailure ==
    /\ \A i \in 1..Len(trace) :
          (trace[i][1] \in DiagramSteps /\ trace[i][2] = "ok") =>
              <<"diagrams", DocumentedImage(trace[i][1])>> \in files
    /\ (pc = "exit" /\ Faulted) => result = 1

\* C2 witness: first run on an empty disk, the third routine raised, main()
\* returned
C2_Witness ==
    /\ prev = -1
    /\ pc = "exit"
    /\ Len(trace) = 5
    /\ trace[5] = <<"data_predictor", "fault">>
    /\ <<"diagrams", "burn-image-classifier-diagram.png">> \in files
    /\ <<"diagrams", "burn-text-analyzer-diagram.png">> \in files

\* C3: in a run that follows a successful run, creating the directory
\* succeeds although it exists, no fault of the run is a complaint about
\* something that exists already, and if the run returns 0 the output
\* directory holds the same four files as after the run before.
C3_Idempotent ==
    prev = 0 =>
        /\ dirState = "dir"
        /\ Len(trace) >= 1 => trace[1] = <<"makedirs", "ok">>
        /\ e # "[Errno 17] File exists: 'diagrams'"
        /\ (pc = "exit" /\ result = 0) =>
              files = {<<"diagrams", DocumentedImage(s)>> : s \in DiagramSteps}

\* C3 witness: the second of two runs in a row has returned 0
C3_Witness ==
    /\ prev = 0
    /\ pc = "exit"
    /\ result = 0

\* C4: when creating the output directory raised, main() returns 1 having
\* printed just the error line with the description of the fault; with the
\* path occupied by a file that is the 'File exists' error.
C4_DirCreateFails ==
    (pc = "exit" /\ trace = << <<"makedirs", "fault">> >>) =>
        /\ result = 1
        /\ e # ""
        /\ stdout = << "Error creating diagrams: " \o e >>
        /\ dirState = "file" =>
              stdout = << "Error creating diagrams: "
                              \o "[Errno 17] File exists: 'diagrams'" >>

\* C4 witness: the path is a regular file and main() has returned
C4_Witness ==
    /\ pc = "exit"
    /\ dirState = "file"
    /\ result = 1

\* C5: after a run that returned 0 the output directory holds the four
\* documented images and none of the graph description files; a routine's
\* confirmation is on the output only if the routine completed and its
\* image is on disk.
C5_Outputs ==
    /\ (pc = "exit" /\ result = 0) =>
          \A s \in DiagramSteps :
              /\ <<"diagrams", DocumentedImage(s)>> \in files
              /\ <<"diagrams", IntermediateFile(s)>> \notin files
    /\ \A s \in DiagramSteps :
          Confirmation(s) \in SeqRange(stdout) =>
              /\ <<s, "ok">> \in SeqRange(trace)
              /\ <<"diagrams", DocumentedImage(s)>> \in files

\* C5 witness: a run returned 0 after the run before it had failed
C5_Witness ==
    /\ pc = "exit"
    /\ result = 0
    /\ prev = 1

\* C6: the steps attempted so far are an initial part of the documented
\* order, each once, every one but the last completed; a diagram routine
\* was attempted only with the output directory created and entered; after
\* a fault control is in the except clause or main() has returned.
C6_Order ==
    /\ Len(trace) <= Len(DocumentedOrder)
    /\ \A i \in 1..Len(trace) :
          /\ trace[i][1] = DocumentedOrder[i]
          /\ i < Len(trace) => trace[i][2] = "ok"
          /\ trace[i][1] \in DiagramSteps =>
                dirState = "dir" /\ cwd = "diagrams"
    /\ Faulted => pc \in {"except", "exit"}
    /\ pc \in SeqRange(DocumentedOrder) =>
          Len(trace) < Len(DocumentedOrder)
              /\ pc = DocumentedOrder[Len(trace) + 1]

\* C6 witness: all six steps were attempted and main() has returned
C6_Witness ==
    /\ pc = "exit"
    /\ Len(trace) = 6
    /\ result = 0
    /\ prev = -1


(***************************************************************************)
(* Diagram renderer: properties of the graph descriptions                  *)
(***************************************************************************)

IsNode(s) == s.op = "node"
IsEdge(s) == s.op = "edge"
IsSubgraph(s) == s.op = "subgraph"

\* the node, edge and subgraph statements of a graph, in declaration order
NodesOf(g) == SelectSeq(g.body, IsNode)
EdgesOf(g) == SelectSeq(g.body, IsEdge)
SubgraphsOf(g) == SelectSeq(g.body, IsSubgraph)

\* the statements of a graph made in one scope
InScope(stmts, scope) ==
    LET here(s) == s.scope = scope IN SelectSeq(stmts, here)

NodeIds(g) == {n.id : n \in SeqRange(NodesOf(g))}

\* the routine that ran last is `step`: `dot` is its graph
Rendering(step) == Len(trace) > 0 /\ Last(trace)[1] = step

\* the edges declared in the subgraph are the unlabeled edges from each
\* stage node to the next, in order, and nothing else
IsStageChain(g, scope) ==
    LET stages == InScope(NodesOf(g), scope)
        edges == InScope(EdgesOf(g), scope)
    IN  /\ Len(stages) \in {3, 4}
        /\ \A i, j \in 1..Len(stages) : stages[i].id = stages[j].id => i = j
        /\ Len(edges) = Len(stages) - 1
        /\ \A i \in 1..Len(edges) :
              /\ edges[i].tail = stages[i].id
              /\ edges[i].head = stages[i + 1].id
              /\ edges[i].label = ""

\* C8: the graph of each per-template routine has exactly one subgraph,
\* labeled 'Data Flow', with 3 or 4 stage nodes, and the edges declared in
\* it are exactly the unlabeled edges stage i -> stage i+1.
C8_DataFlowChain ==
    \A step \in {"image_classifier", "text_analyzer", "data_predictor"} :
        Rendering(step) =>
            /\ Len(SubgraphsOf(dot)) = 1
            /\ SubgraphsOf(dot)[1].label = "Data Flow"
            /\ IsStageChain(dot, SubgraphsOf(dot)[1].scope)
            /\ \A n \in SeqRange(NodesOf(dot)) \cup SeqRange(EdgesOf(dot)) :
                  n.scope \in {Top, SubgraphsOf(dot)[1].scope}

\* C8 witness: the text analyzer routine has built and rendered its graph
C8_Witness ==
    /\ Rendering("text_analyzer")
    /\ Last(trace)[2] = "ok"
    /\ Len(InScope(EdgesOf(dot), "cluster_dataflow")) = 3

\* the top-level node whose label names the template of a feature subgraph
TemplateOf(g, sub) ==
    {n.id : n \in {t \in SeqRange(InScope(NodesOf(g), Top)) :
                      t.label \o " Features" = sub.label}}

\* C9: the overview graph has 13 nodes: a central node, three template
\* nodes and three labeled subgraphs of three feature nodes each; its 12
\* edges are the edge from the central node to each template and the edge
\* from each template to each feature node of its own subgraph; every node
\* but the central one has exactly one incoming edge.
C9_Overview ==
    Rendering("overview") =>
        LET top == {n.id : n \in SeqRange(InScope(NodesOf(dot), Top))}
            pairs == {<<d.tail, d.head>> : d \in SeqRange(EdgesOf(dot))}
            central == {n \in top : \A p \in pairs : p[2] # n}
            templates == top \ central
            subs == SeqRange(SubgraphsOf(dot))
            features(sub) ==
                {n.id : n \in SeqRange(InScope(NodesOf(dot), sub.scope))}
        IN  /\ Len(NodesOf(dot)) = 13 /\ Cardinality(NodeIds(dot)) = 13
            /\ Cardinality(central) = 1 /\ Cardinality(templates) = 3
            /\ Len(SubgraphsOf(dot)) = 3 /\ Cardinality(subs) = 3
            /\ \A sub \in subs :
                  /\ sub.label # ""
                  /\ Cardinality(features(sub)) = 3
                  /\ Cardinality(TemplateOf(dot, sub)) = 1
                  /\ TemplateOf(dot, sub) \subseteq templates
            /\ \A t \in templates :
                  \E sub \in subs : TemplateOf(dot, sub) = {t}
            /\ Len(EdgesOf(dot)) = 12 /\ Cardinality(pairs) = 12
            /\ pairs =
                  {<<c, t>> : c \in central, t \in templates}
                     \cup UNION {TemplateOf(dot, sub) \X features(sub) :
                                    sub \in subs}
            /\ \A n \in NodeIds(dot) \ central :
                  Cardinality({p \in pairs : p[2] = n}) = 1

\* C9 witness: the overview routine has built and rendered its graph
C9_Witness ==
    /\ Rendering("overview")
    /\ Last(trace)[2] = "ok"
    /\ Len(EdgesOf(dot)) = 12

\* C10: in the graph of each of the four routines no node identifier is
\* declared twice and both ends of every edge are declared node identifiers.
C10_WellFormed ==
    (Len(trace) > 0 /\ Last(trace)[1] \in DiagramSteps) =>
        /\ Len(NodesOf(dot)) > 0
        /\ Cardinality(NodeIds(dot)) = Len(NodesOf(dot))
        /\ \A d \in SeqRange(EdgesOf(dot)) :
              d.tail \in NodeIds(dot) /\ d.head \in NodeIds(dot)

\* C10 witness: the data predictor routine has built and rendered its graph
C10_Witness ==
    /\ Rendering("data_predictor")
    /\ Last(trace)[2] = "ok"
    /\ Len(EdgesOf(dot)) = 9


(***************************************************************************)
(* Sample data generator: properties                                       *)
(***************************************************************************)

\* C7: once the table is built it has exactly 100 rows and its id column
\* holds i at row i, for i = 1..100, whatever the random columns hold.
C7_IdColumn ==
    gpc \in {"parquet", "print", "done"} =>
        /\ df.nrows = 100
        /\ DOMAIN df.col.id = 1..100
        /\ \A i \in 1..100 : df.col.id[i] = i

\* C7 witness: the script ran to its end and the random columns are not
\* constant
C7_Witness ==
    /\ gpc = "done"
    /\ df.nrows = 100
    /\ \E i, j \in 1..100 : df.col.category[i] # df.col.category[j]
    /\ \E i, j \in 1..100 : df.col.is_active[i] # df.col.is_active[j]
    /\ \E i, j \in 1..100 : df.col.value[i] # df.col.value[j]

====
